---- MODULE Spec2Model ----
(***************************************************************************)
(* Model of src/src/dataprocessing/vaxdata.py: the row cleaner clean_row   *)
(* and the file-level pipeline main.                                       *)
(*                                                                         *)
(* A text is a sequence of one-character strings.  Two specifications:     *)
(*   SpecClean  clean_row applied to every line up to MaxLen characters,   *)
(*              then applied again to its own re-joined output;            *)
(*   Spec       main run over every input file of up to MaxLines lines.    *)
(***************************************************************************)
EXTENDS Integers, Sequences, FiniteSets, TLC

\* ------------------------------------------------------------------------
\* Bounds
\* ------------------------------------------------------------------------
MaxLen == 5
MaxLines == 4

\* ------------------------------------------------------------------------
\* Configuration
\* ------------------------------------------------------------------------
BOM == "U+FEFF"
COLUMN_NAMES == << <<"v","a","c","c","i","n","e">>, <<"r","e","g","i","o","n">>,
                   <<"y","e","a","r">>, <<"c","o","v","e","r","a","g","e">> >>
EXPECTED_COLUMNS == 4
SEPARATOR == ";"

\* Characters str.strip() removes (the ones that occur in the model).
Whitespace == {" ", "\n"}

\* ------------------------------------------------------------------------
\* str methods used by clean_row
\* ------------------------------------------------------------------------
RECURSIVE LStrip(_)
LStrip(s) ==
    IF s # <<>> /\ Head(s) \in Whitespace THEN LStrip(Tail(s)) ELSE s

RECURSIVE RStrip(_)
RStrip(s) ==
    IF s # <<>> /\ s[Len(s)] \in Whitespace
    THEN RStrip(SubSeq(s, 1, Len(s) - 1))
    ELSE s

\* str.strip()
Strip(s) == RStrip(LStrip(s))

\* Position of the first sep in s, 0 when there is none.
RECURSIVE Find(_, _, _)
Find(s, sep, i) ==
    IF i > Len(s) THEN 0
    ELSE IF s[i] = sep THEN i
    ELSE Find(s, sep, i + 1)

\* str.split(sep) for a one-character separator: never an empty list.
RECURSIVE Split(_, _)
Split(s, sep) ==
    LET i == Find(s, sep, 1) IN
    IF i = 0 THEN << s >>
    ELSE << SubSeq(s, 1, i - 1) >> \o Split(SubSeq(s, i + 1, Len(s)), sep)

\* str.replace(old, new): old is one character, new a text.
RECURSIVE Replace(_, _, _)
Replace(s, old, new) ==
    IF s = <<>> THEN <<>>
    ELSE (IF Head(s) = old THEN new ELSE << Head(s) >>)
         \o Replace(Tail(s), old, new)

\* str.endswith(c)
EndsWith(s, c) == s # <<>> /\ s[Len(s)] = c

\* sep.join(cols)
RECURSIVE Join(_, _)
Join(sep, cols) ==
    IF cols = <<>> THEN <<>>
    ELSE IF Len(cols) = 1 THEN cols[1]
    ELSE cols[1] \o << sep >> \o Join(sep, Tail(cols))

\* ------------------------------------------------------------------------
\* Row-level cleaning
\* ------------------------------------------------------------------------

\* Outcomes of clean_row: a list of columns, None, or a raised ValueError.
Cols(cols) == [kind |-> "cols", cols |-> cols, err |-> <<>>]
None == [kind |-> "None", cols |-> <<>>, err |-> <<>>]
ValueError(err) == [kind |-> "ValueError", cols |-> <<>>, err |-> err]

\* Basic cleanup that forgets the byte-order mark.
basic_cleanup_no_bom(c) == Replace(Replace(c, "\"", <<>>), "*", <<>>)

\* Basic cleanup of one column.
basic_cleanup(c) ==
    Replace(Replace(Replace(c, "\"", <<>>), "*", <<>>), BOM, <<>>)

\* Coverage repair that does not append the "0".
clean_coverage_no_repair(value) == Replace(value, ",", << "." >>)

\* str.replace(",", ".", 1): only the first occurrence.
ReplaceFirstComma(s) ==
    LET i == Find(s, ",", 1) IN
    IF i = 0 THEN s
    ELSE SubSeq(s, 1, i - 1) \o << "." >> \o SubSeq(s, i + 1, Len(s))

\* Coverage repair that replaces only the first comma.
clean_coverage_first_comma(value) ==
    ReplaceFirstComma(IF EndsWith(value, ",") THEN Append(value, "0") ELSE value)

\* The last column once it is known to be non-empty.
clean_coverage(value) ==
    Replace(IF EndsWith(value, ",") THEN Append(value, "0") ELSE value,
            ",", << "." >>)

\* clean_row that accepts rows with too many columns.
clean_row_fewer_only(line, sep, expected_columns) ==
    LET split == Split(Strip(line), sep)
        cols  == [k \in 1..Len(split) |-> basic_cleanup(split[k])]
        value == cols[Len(cols)]
    IN  IF Len(split) < expected_columns
        THEN ValueError(<< "Unexpected number of columns: ", Len(split) >>)
        ELSE IF value = <<>> THEN None
        ELSE Cols([k \in 1..Len(cols) |->
                    IF k = Len(cols) THEN clean_coverage(value) ELSE cols[k]])

\* clean_row that tests the coverage for emptiness before the cleanup.
clean_row_raw_empty(line, sep, expected_columns) ==
    LET split == Split(Strip(line), sep)
        cols  == [k \in 1..Len(split) |-> basic_cleanup(split[k])]
        value == cols[Len(cols)]
    IN  IF Len(split) # expected_columns
        THEN ValueError(<< "Unexpected number of columns: ", Len(split) >>)
        ELSE IF split[Len(split)] = <<>> THEN None
        ELSE Cols([k \in 1..Len(cols) |->
                    IF k = Len(cols) THEN clean_coverage(value) ELSE cols[k]])

clean_row(line, sep, expected_columns) ==
    LET split == Split(Strip(line), sep)
        cols  == [k \in 1..Len(split) |-> basic_cleanup(split[k])]
        value == cols[Len(cols)]
    IN  IF Len(split) # expected_columns
        THEN ValueError(<< "Unexpected number of columns: ", Len(split) >>)
        ELSE IF value = <<>> THEN None
        ELSE Cols([k \in 1..Len(cols) |->
                    IF k = Len(cols) THEN clean_coverage(value) ELSE cols[k]])

\* ------------------------------------------------------------------------
\* State
\* ------------------------------------------------------------------------
VARIABLES
    line,             \* SpecClean: the raw line given to clean_row
    expected_columns, \* SpecClean: the expected_columns argument
    result,           \* SpecClean: outcome of clean_row(line, ...)
    again,            \* SpecClean: outcome of clean_row on the re-joined result
    cpc,              \* SpecClean: "start", "called", "recleaned"
    infile,           \* Spec: the lines the input file yields
    line_number,      \* Spec: number of lines consumed by the loop
    cleaned_lines,    \* Spec: the output buffer
    printed,          \* Spec: the messages printed
    outfile,          \* Spec: the lines written to the output file
    pc                \* Spec: "loop", "done"

cleanVars == << line, expected_columns, result, again, cpc >>
mainVars == << infile, line_number, cleaned_lines, printed, outfile, pc >>
vars == << line, expected_columns, result, again, cpc,
           infile, line_number, cleaned_lines, printed, outfile, pc >>

NotCalled == [kind |-> "-", cols |-> <<>>, err |-> <<>>]

\* ------------------------------------------------------------------------
\* SpecClean: clean_row as a function of its input line
\* ------------------------------------------------------------------------
Alphabet == {"a", SEPARATOR, "\"", "*", BOM, ",", " "}
ColumnCounts == {EXPECTED_COLUMNS - 1, EXPECTED_COLUMNS}

Texts(n) == UNION {[1..k -> Alphabet] : k \in 0..n}

MainIdle ==
    /\ infile = <<>>
    /\ line_number = 0
    /\ cleaned_lines = <<>>
    /\ printed = <<>>
    /\ outfile = <<>>
    /\ pc = "idle"

InitClean ==
    /\ line \in Texts(MaxLen)
    /\ expected_columns \in ColumnCounts
    /\ result = NotCalled
    /\ again = NotCalled
    /\ cpc = "start"
    /\ MainIdle

CallCleanRow ==
    /\ cpc = "start"
    /\ result' = clean_row(line, SEPARATOR, expected_columns)
    /\ cpc' = "called"
    /\ UNCHANGED << line, expected_columns, again >>
    /\ UNCHANGED mainVars

CleanAgain ==
    /\ cpc = "called"
    /\ result.kind = "cols"
    /\ again' = clean_row(Join(SEPARATOR, result.cols), SEPARATOR, expected_columns)
    /\ cpc' = "recleaned"
    /\ UNCHANGED << line, expected_columns, result >>
    /\ UNCHANGED mainVars

NextClean == CallCleanRow \/ CleanAgain

SpecClean == InitClean /\ [][NextClean]_vars


\* ------------------------------------------------------------------------
\* Reference notions used to state the properties of clean_row
\* ------------------------------------------------------------------------
Banned == {"\"", "*", BOM}

\* s between its first and its last non-whitespace character.
Trimmed(s) ==
    LET keep == {i \in 1..Len(s) : s[i] \notin Whitespace} IN
    IF keep = {} THEN <<>>
    ELSE SubSeq(s, CHOOSE i \in keep : \A j \in keep : i <= j,
                   CHOOSE i \in keep : \A j \in keep : i >= j)

SepPositions(t) == {i \in 1..Len(t) : t[i] = SEPARATOR}

\* Number of fields of the trimmed line.
FieldCount(s) == 1 + Cardinality(SepPositions(Trimmed(s)))

\* Field k (1-based) of the trimmed line: the text between separator k-1 and
\* separator k.
RawField(s, k) ==
    LET t  == Trimmed(s)
        sp == SepPositions(t)
        nth(n) == CHOOSE p \in sp : Cardinality({q \in sp : q <= p}) = n
        lo == IF k = 1 THEN 0 ELSE nth(k - 1)
        hi == IF k = Cardinality(sp) + 1 THEN Len(t) + 1 ELSE nth(k)
    IN  SubSeq(t, lo + 1, hi - 1)

RawCoverage(s) == RawField(s, FieldCount(s))

\* f without its banned characters.
Sans(f) == SelectSeq(f, LAMBDA c : c \notin Banned)

Contains(f, c) == \E i \in 1..Len(f) : f[i] = c
ContainsBanned(f) == \E i \in 1..Len(f) : f[i] \in Banned

\* The coverage the cleaner is expected to return for a raw coverage f.
ReferenceCoverage(f) ==
    LET v == Sans(f)
        w == IF v # <<>> /\ v[Len(v)] = "," THEN v \o << "0" >> ELSE v
    IN  [i \in 1..Len(w) |-> IF w[i] = "," THEN "." ELSE w[i]]

Called == cpc # "start"

\* What C1 asks of a returned row.
CleanFourFields(r) ==
    /\ r.kind = "cols"
    /\ Len(r.cols) = 4
    /\ \A k \in 1..Len(r.cols) : ~ContainsBanned(r.cols[k])
    /\ ~Contains(r.cols[Len(r.cols)], ",")

\* C1 (as stated): a line that splits into exactly 4 fields and whose raw
\* coverage field is non-empty is cleaned into 4 fields without '"', '*',
\* BOM, and without ',' in the coverage; it is never skipped.
C1_RawNonEmptyCoverageIsCleaned ==
    (Called /\ expected_columns = EXPECTED_COLUMNS
            /\ FieldCount(line) = 4 /\ RawCoverage(line) # <<>>)
        => CleanFourFields(result)

\* C1 (amended): a line that splits into exactly 4 fields and whose coverage
\* field is non-empty once '"', '*' and BOM are removed from it is cleaned
\* into 4 fields without '"', '*', BOM, and without ',' in the coverage.
C1_CleanedNonEmptyCoverageIsCleaned ==
    (Called /\ expected_columns = EXPECTED_COLUMNS
            /\ FieldCount(line) = 4 /\ Sans(RawCoverage(line)) # <<>>)
        => CleanFourFields(result)

C1_Witness ==
    /\ cpc = "called" /\ expected_columns = EXPECTED_COLUMNS
    /\ FieldCount(line) = 4
    /\ ContainsBanned(RawCoverage(line))
    /\ Contains(RawCoverage(line), ",")
    /\ result.kind = "cols"

\* C2: clean_row raises the ValueError exactly when the trimmed line does
\* not split into expected_columns fields, and the error reports the actual
\* number of fields.
C2_MalformedRowRaises ==
    Called =>
        /\ (result.kind = "ValueError") <=> (FieldCount(line) # expected_columns)
        /\ result.kind = "ValueError" =>
              result.err = << "Unexpected number of columns: ", FieldCount(line) >>

C2_Witness ==
    /\ cpc = "called"
    /\ FieldCount(line) > expected_columns
    /\ result.kind = "ValueError"
    /\ result.err[2] = FieldCount(line)

\* C3: with the expected number of fields, clean_row returns None exactly
\* when the last field is empty after '"', '*' and BOM are removed from it.
C3_SkipIffCleanedCoverageEmpty ==
    (Called /\ FieldCount(line) = expected_columns)
        => ((result.kind = "None") <=> (Sans(RawCoverage(line)) = <<>>))

C3_Witness ==
    /\ cpc = "called"
    /\ FieldCount(line) = expected_columns
    /\ RawCoverage(line) # <<>>
    /\ result.kind = "None"

\* C4 (as stated): cleaning the re-joined result of clean_row returns that
\* same result.
C4_Idempotent ==
    cpc = "recleaned" => again = result

StartsWithSpace(f) == f # <<>> /\ f[1] \in Whitespace
EndsWithSpace(f) == f # <<>> /\ f[Len(f)] \in Whitespace

\* C4 (amended): cleaning the re-joined result of clean_row returns that same
\* result, provided the first field of the result does not begin with
\* whitespace and its last field does not end with whitespace.
C4_IdempotentWithoutOuterSpace ==
    (/\ cpc = "recleaned"
     /\ ~StartsWithSpace(result.cols[1])
     /\ ~EndsWithSpace(result.cols[Len(result.cols)]))
        => again = result

C4_Witness ==
    /\ cpc = "recleaned"
    /\ ~StartsWithSpace(result.cols[1])
    /\ ~EndsWithSpace(result.cols[Len(result.cols)])
    /\ ContainsBanned(line)
    /\ EndsWith(RawCoverage(line), ",")
    /\ again = result

\* C10: a returned row is, field by field, the trimmed and split line with
\* '"', '*' and BOM removed; the last field alone also gets a '0' appended
\* when it ends with ',' and then has every ',' replaced by '.'.
C10_MatchesReference ==
    (Called /\ result.kind = "cols") =>
        /\ Len(result.cols) = FieldCount(line)
        /\ \A k \in 1..Len(result.cols) :
              result.cols[k] = IF k < Len(result.cols)
                               THEN Sans(RawField(line, k))
                               ELSE ReferenceCoverage(RawField(line, k))

C10_Witness ==
    /\ cpc = "called" /\ result.kind = "cols"
    /\ Contains(RawField(line, 1), ",")
    /\ ContainsBanned(RawField(line, 1))
    /\ Contains(result.cols[1], ",")
    /\ EndsWith(RawCoverage(line), ",")
    /\ EndsWith(result.cols[Len(result.cols)], "0")


\* ------------------------------------------------------------------------
\* Spec: the file-level pipeline
\* ------------------------------------------------------------------------

\* Lines the input file may yield (as iterated: with their line break).
InputLines == {
    << "h", ";", "h", ";", "h", ";", "h", "\n" >>,
    << "\"", "P", "*", ";", "E", ",", "U", ";", BOM, "2", ";", "3", ",", "4", ",", "\n" >>,
    << "B", ";", "R", ";", "O", "\n" >>,
    << "\n" >>,
    << "M", ";", "E", ";", "2", ";", "\n" >>,
    << "a", ";", "b", ";", "c", ";", "*", "\n" >> }

Files(n) == UNION {[1..k -> InputLines] : k \in 0..n}

CleanIdle ==
    /\ line = <<>>
    /\ expected_columns = EXPECTED_COLUMNS
    /\ result = NotCalled
    /\ again = NotCalled
    /\ cpc = "idle"

Init ==
    /\ infile \in Files(MaxLines)
    /\ line_number = 0
    /\ cleaned_lines = <<>>
    /\ printed = <<>>
    /\ outfile = <<>>
    /\ pc = "loop"
    /\ CleanIdle

\* The line the loop is at (line_number is 0-based).
CurrentLine == infile[line_number + 1]

\* The printed message with the line number counted from 1.
diagnostic_one_based(n, err) == << "Line ", n + 1, ": " >> \o err

\* print(f"Line {line_number}: {err}")
diagnostic(n, err) == << "Line ", n, ": " >> \o err

\* The header iteration keeping the file's own header.
Header_copies_line0 ==
    /\ pc = "loop" /\ line_number < Len(infile)
    /\ line_number = 0
    /\ cleaned_lines' = Append(cleaned_lines, Strip(CurrentLine))
    /\ line_number' = line_number + 1
    /\ UNCHANGED << infile, printed, outfile, pc >>
    /\ UNCHANGED cleanVars

\* Loop iteration for line 0: the fixed header replaces the line.
Header ==
    /\ pc = "loop" /\ line_number < Len(infile)
    /\ line_number = 0
    /\ cleaned_lines' = Append(cleaned_lines, Join(SEPARATOR, COLUMN_NAMES))
    /\ line_number' = line_number + 1
    /\ UNCHANGED << infile, printed, outfile, pc >>
    /\ UNCHANGED cleanVars

\* The malformed-row iteration leaving the loop (break for continue).
RowMalformed_breaks ==
    /\ pc = "loop" /\ line_number < Len(infile)
    /\ line_number # 0
    /\ LET cols == clean_row(CurrentLine, SEPARATOR, EXPECTED_COLUMNS) IN
        /\ cols.kind = "ValueError"
        /\ printed' = Append(printed, diagnostic(line_number, cols.err))
    /\ line_number' = Len(infile)
    /\ UNCHANGED << infile, cleaned_lines, outfile, pc >>
    /\ UNCHANGED cleanVars

\* Loop iteration for a line on which clean_row raises ValueError.
RowMalformed ==
    /\ pc = "loop" /\ line_number < Len(infile)
    /\ line_number # 0
    /\ LET cols == clean_row(CurrentLine, SEPARATOR, EXPECTED_COLUMNS) IN
        /\ cols.kind = "ValueError"
        /\ printed' = Append(printed, diagnostic(line_number, cols.err))
    /\ line_number' = line_number + 1
    /\ UNCHANGED << infile, cleaned_lines, outfile, pc >>
    /\ UNCHANGED cleanVars

\* The skipped-row iteration that also prints a message.
RowSkipped_prints ==
    /\ pc = "loop" /\ line_number < Len(infile)
    /\ line_number # 0
    /\ clean_row(CurrentLine, SEPARATOR, EXPECTED_COLUMNS).kind = "None"
    /\ printed' = Append(printed, diagnostic(line_number, << "skipped" >>))
    /\ line_number' = line_number + 1
    /\ UNCHANGED << infile, cleaned_lines, outfile, pc >>
    /\ UNCHANGED cleanVars

\* Loop iteration for a line on which clean_row returns None.
RowSkipped ==
    /\ pc = "loop" /\ line_number < Len(infile)
    /\ line_number # 0
    /\ clean_row(CurrentLine, SEPARATOR, EXPECTED_COLUMNS).kind = "None"
    /\ line_number' = line_number + 1
    /\ UNCHANGED << infile, cleaned_lines, printed, outfile, pc >>
    /\ UNCHANGED cleanVars

\* The cleaned-row iteration appending the raw line instead of the columns.
RowCleaned_appends_raw ==
    /\ pc = "loop" /\ line_number < Len(infile)
    /\ line_number # 0
    /\ clean_row(CurrentLine, SEPARATOR, EXPECTED_COLUMNS).kind = "cols"
    /\ cleaned_lines' = Append(cleaned_lines, Strip(CurrentLine))
    /\ line_number' = line_number + 1
    /\ UNCHANGED << infile, printed, outfile, pc >>
    /\ UNCHANGED cleanVars

\* Loop iteration for a line on which clean_row returns columns.
RowCleaned ==
    /\ pc = "loop" /\ line_number < Len(infile)
    /\ line_number # 0
    /\ LET cols == clean_row(CurrentLine, SEPARATOR, EXPECTED_COLUMNS) IN
        /\ cols.kind = "cols"
        /\ cleaned_lines' = Append(cleaned_lines, Join(SEPARATOR, cols.cols))
    /\ line_number' = line_number + 1
    /\ UNCHANGED << infile, printed, outfile, pc >>
    /\ UNCHANGED cleanVars

\* End of the input: the buffer is written, one "\n" after each line.
WriteOutput ==
    /\ pc = "loop" /\ line_number = Len(infile)
    /\ outfile' = [i \in 1..Len(cleaned_lines) |-> cleaned_lines[i] \o << "\n" >>]
    /\ pc' = "done"
    /\ UNCHANGED << infile, line_number, cleaned_lines, printed >>
    /\ UNCHANGED cleanVars

Next ==
    \/ Header
    \/ RowMalformed
    \/ RowSkipped
    \/ RowCleaned
    \/ WriteOutput

Spec == Init /\ [][Next]_vars

\* ------------------------------------------------------------------------
\* Properties of the pipeline
\* ------------------------------------------------------------------------
HeaderText ==
    << "v", "a", "c", "c", "i", "n", "e", ";", "r", "e", "g", "i", "o", "n", ";",
       "y", "e", "a", "r", ";", "c", "o", "v", "e", "r", "a", "g", "e" >>

\* Input lines are numbered from 0; Row(i) is line i.
Row(i) == infile[i + 1]
Malformed(i) == FieldCount(Row(i)) # EXPECTED_COLUMNS
Skipped(i) == ~Malformed(i) /\ Sans(RawCoverage(Row(i))) = <<>>
Kept(i) == ~Malformed(i) /\ ~Skipped(i)

\* The lines after the first of an output.
DataLines(out) == IF out = <<>> THEN <<>> ELSE Tail(out)

\* Text after the last separator of an output line.
LastField(l) ==
    LET sp == SepPositions(l)
        last == IF sp = {} THEN 0 ELSE CHOOSE p \in sp : \A q \in sp : q <= p
    IN  SubSeq(l, last + 1, Len(l))

\* C5: every data line of the output buffer has exactly 4 fields, a coverage
\* field that is not empty and holds no ',', and no '"', '*' or BOM anywhere.
C5_DataLinesWellFormed ==
    \A i \in 2..Len(cleaned_lines) :
        /\ Cardinality(SepPositions(cleaned_lines[i])) + 1 = 4
        /\ LastField(cleaned_lines[i]) # <<>>
        /\ ~Contains(LastField(cleaned_lines[i]), ",")
        /\ ~ContainsBanned(cleaned_lines[i])

C5_Witness ==
    /\ pc = "done"
    /\ Len(cleaned_lines) >= 3
    /\ \E i \in 1..(Len(infile) - 1) :
          /\ Kept(i)
          /\ ContainsBanned(Row(i))
          /\ Contains(RawCoverage(Row(i)), ",")

\* The cleaned forms of the kept lines among lines 1..n-1, in input order.
RECURSIVE CleanedForms(_)
CleanedForms(n) ==
    IF n <= 1 THEN <<>>
    ELSE CleanedForms(n - 1) \o
         (IF Kept(n - 1)
          THEN << Join(SEPARATOR,
                       clean_row(Row(n - 1), SEPARATOR, EXPECTED_COLUMNS).cols) >>
          ELSE <<>>)

\* C6: the data lines of the output are the cleaned forms of the input lines
\* of index >= 1 that are neither malformed nor skipped, once each and in
\* input order; this holds of the buffer after every line and of the file
\* written at the end.
C6_DataLinesAreKeptRowsInOrder ==
    /\ DataLines(cleaned_lines) = CleanedForms(line_number)
    /\ pc = "done" =>
          /\ line_number = Len(infile)
          /\ DataLines(outfile) =
                [i \in 1..Len(CleanedForms(Len(infile))) |->
                    CleanedForms(Len(infile))[i] \o << "\n" >>]

C6_Witness ==
    /\ pc = "done"
    /\ Len(infile) = 4
    /\ Malformed(1) /\ Kept(2) /\ Kept(3)
    /\ Row(2) # Row(3)
    /\ Len(outfile) = 3

\* C7 (as stated): on completion the first output line is the fixed header,
\* also for an input without lines.
C7_HeaderAlwaysFirst ==
    pc = "done" =>
        /\ outfile # <<>>
        /\ outfile[1] = HeaderText \o << "\n" >>

\* C7 (amended): on completion of a run over an input with at least one
\* line, the first output line is the fixed header, the output has exactly
\* one line more than there are kept rows, and line 0 produces no message.
C7_HeaderFirstWhenInputNonEmpty ==
    (pc = "done" /\ infile # <<>>) =>
        /\ outfile # <<>>
        /\ outfile[1] = HeaderText \o << "\n" >>
        /\ Len(outfile) = 1 + Cardinality({i \in 1..(Len(infile) - 1) : Kept(i)})
        /\ \A j \in 1..Len(printed) : printed[j][2] # 0

C7_Witness ==
    /\ pc = "done"
    /\ Len(infile) >= 2
    /\ Malformed(0)
    /\ Kept(1)
    /\ outfile[1] = HeaderText \o << "\n" >>

\* The messages expected for lines 1..n-1.
RECURSIVE ExpectedMessages(_)
ExpectedMessages(n) ==
    IF n <= 1 THEN <<>>
    ELSE ExpectedMessages(n - 1) \o
         (IF Malformed(n - 1)
          THEN << << "Line ", n - 1, ": ", "Unexpected number of columns: ",
                     FieldCount(Row(n - 1)) >> >>
          ELSE <<>>)

\* C8: each malformed line of index i >= 1 yields exactly one message, which
\* names i (0-based) and the observed column count; skipped and cleaned
\* lines yield none; the run goes on to the end of the input.
C8_OneMessagePerMalformedRow ==
    /\ printed = ExpectedMessages(line_number)
    /\ pc = "done" => line_number = Len(infile)

C8_Witness ==
    /\ pc = "done"
    /\ Len(infile) = 4
    /\ Kept(1) /\ Malformed(2) /\ Skipped(3)
    /\ Len(printed) = 1

\* The 0-based index of the j-th malformed line among lines >= 1.
MalformedRows == {i \in 1..(Len(infile) - 1) : Malformed(i)}
NthMalformed(j) ==
    CHOOSE i \in MalformedRows : Cardinality({k \in MalformedRows : k <= i}) = j

\* C9 (as stated): the message for a malformed row reports the row's line
\* number counted from 1, with the observed column count.
C9_MessageIsOneBased ==
    \A j \in 1..Len(printed) :
        /\ printed[j][2] = NthMalformed(j) + 1
        /\ printed[j][5] = FieldCount(Row(NthMalformed(j)))

\* C9 (amended): the message for a malformed row reports the row's line
\* number counted from 0, with the observed column count.
C9_MessageIsZeroBased ==
    \A j \in 1..Len(printed) :
        /\ printed[j][2] = NthMalformed(j)
        /\ printed[j][5] = FieldCount(Row(NthMalformed(j)))

C9_Witness ==
    /\ Len(printed) = 2
    /\ printed[1][2] = 1
    /\ printed[2][2] = 3
    /\ printed[1][5] # printed[2][5]

====
